---- MODULE Spec2Model ----
(***************************************************************************)
(* Model of the htmx-types header codecs (src/lib.rs, src/headers.rs,      *)
(* src/headers/request.rs, src/headers/response.rs).                       *)
(*                                                                         *)
(* A HeaderValue is a sequence of bytes (naturals 0..255).  A caller       *)
(* builds a typed header value and encodes it into a sink, or obtains a    *)
(* sequence of raw values from a message and decodes it.  The library      *)
(* calls the codecs make (http::HeaderValue, http::Uri, serde_json and the *)
(* serde derives) are modelled by what they do on bytes.                   *)
(***************************************************************************)
EXTENDS Naturals, Integers, Sequences, FiniteSets, TLC

(***************************************************************************)
(* Text: the printable ASCII table, used only to write byte strings.       *)
(***************************************************************************)
Ascii ==
  << " ", "!", "\"", "#", "$", "%", "&", "'", "(", ")", "*", "+", ",", "-", ".", "/",
     "0", "1", "2", "3", "4", "5", "6", "7", "8", "9", ":", ";", "<", "=", ">", "?",
     "@", "A", "B", "C", "D", "E", "F", "G", "H", "I", "J", "K", "L", "M", "N", "O",
     "P", "Q", "R", "S", "T", "U", "V", "W", "X", "Y", "Z", "[", "\\", "]", "^", "_",
     "grave", "a", "b", "c", "d", "e", "f", "g", "h", "i", "j", "k", "l", "m", "n", "o",
     "p", "q", "r", "s", "t", "u", "v", "w", "x", "y", "z", "{", "|", "}", "~" >>

\* the byte of each character of the table
OrdTable ==
  [c \in {Ascii[i] : i \in 1..Len(Ascii)} |->
     31 + (CHOOSE i \in 1..Len(Ascii) : Ascii[i] = c)]

Ord(c) == OrdTable[c]

\* the bytes of a text written as a tuple of characters
Str(t) == [i \in 1..Len(t) |-> Ord(t[i])]

RECURSIVE Concat(_)
Concat(ss) == IF ss = <<>> THEN <<>> ELSE Head(ss) \o Concat(Tail(ss))

Slice(s, from, to) == IF from > to THEN <<>> ELSE SubSeq(s, from, to)

AllBytes(s, P(_)) == \A i \in 1..Len(s) : P(s[i])

ToLower(b) == IF b >= 65 /\ b <= 90 THEN b + 32 ELSE b

LowerStr(s) == [i \in 1..Len(s) |-> ToLower(s[i])]

EqIgnoreAsciiCase(a, b) == LowerStr(a) = LowerStr(b)

(***************************************************************************)
(* http::HeaderValue                                                       *)
(***************************************************************************)
\* the bytes HeaderValue::from_str / from_bytes accept
IsValidHeaderByte(b) == (b >= 32 /\ b # 127) \/ b = 9

\* the bytes HeaderValue::to_str accepts
IsVisibleAscii(b) == (b >= 32 /\ b < 127) \/ b = 9

HeaderValue_from_str(s) ==
  IF AllBytes(s, IsValidHeaderByte) THEN [ok |-> TRUE, v |-> s]
  ELSE [ok |-> FALSE, v |-> <<>>]

HeaderValue_to_str(value) ==
  IF AllBytes(value, IsVisibleAscii) THEN [ok |-> TRUE, v |-> value]
  ELSE [ok |-> FALSE, v |-> <<>>]

\* std::str::from_utf8, as serde_json applies it to the bytes of a string
RECURSIVE IsUtf8(_)
IsUtf8(s) ==
  IF s = <<>> THEN TRUE
  ELSE LET b == s[1]
           n == IF b < 128 THEN 1
                ELSE IF b >= 194 /\ b <= 223 THEN 2
                ELSE IF b >= 224 /\ b <= 239 THEN 3
                ELSE IF b >= 240 /\ b <= 244 THEN 4
                ELSE 0
       IN  /\ n > 0
           /\ Len(s) >= n
           /\ \A i \in 2..n : s[i] >= 128 /\ s[i] <= 191
           /\ IsUtf8(Slice(s, n + 1, Len(s)))

\* str::trim on text that to_str accepted: spaces and tabs go
IsWhite(b) == b = 32 \/ b = 9

RECURSIVE TrimStart(_)
TrimStart(s) ==
  IF s # <<>> /\ IsWhite(s[1]) THEN TrimStart(Tail(s)) ELSE s

RECURSIVE TrimEnd(_)
TrimEnd(s) ==
  IF s # <<>> /\ IsWhite(s[Len(s)]) THEN TrimEnd(Slice(s, 1, Len(s) - 1)) ELSE s

Trim(s) == TrimEnd(TrimStart(s))

\* str::split on a comma: the pieces between commas, in order; never empty
RECURSIVE SplitAcc(_, _, _)
SplitAcc(s, cur, sep) ==
  IF s = <<>> THEN <<cur>>
  ELSE IF s[1] = sep THEN <<cur>> \o SplitAcc(Tail(s), <<>>, sep)
  ELSE SplitAcc(Tail(s), Append(cur, s[1]), sep)

Split(s, sep) == SplitAcc(s, <<>>, sep)

\* [String]::join(sep)
RECURSIVE Join(_, _)
Join(list, sep) ==
  IF list = <<>> THEN <<>>
  ELSE IF Len(list) = 1 THEN list[1]
  ELSE list[1] \o sep \o Join(Tail(list), sep)

(***************************************************************************)
(* http::Uri: TryFrom<&[u8]>, Display and PartialEq                        *)
(***************************************************************************)
IsAlpha(b) == (b >= 65 /\ b <= 90) \/ (b >= 97 /\ b <= 122)

IsDigit(b) == b >= 48 /\ b <= 57

\* the URI_CHARS table: a byte of a URI maps to itself, any other byte to 0
URI_CHARS(b) ==
  IF \/ IsAlpha(b)
     \/ IsDigit(b)
     \/ b \in {33, 35, 36, 38, 39, 40, 41, 42, 43, 44, 45, 46, 47,
               58, 59, 61, 63, 64, 91, 93, 95, 126}
  THEN b ELSE 0

\* the SCHEME_CHARS table
SCHEME_CHARS(b) ==
  IF IsAlpha(b) \/ IsDigit(b) \/ b \in {43, 45, 46, 58} THEN b ELSE 0

NoScheme == [kind |-> "none", s |-> <<>>]

S_http == Str(<<"h","t","t","p">>)

S_https == Str(<<"h","t","t","p","s">>)

\* the first position i (1-based) of s at which the scan for a scheme stops:
\* a ':' or a byte that is no scheme character; Len(s) + 1 when there is none
RECURSIVE SchemeStop(_, _)
SchemeStop(s, i) ==
  IF i > Len(s) THEN i
  ELSE IF SCHEME_CHARS(s[i]) \in {58, 0} THEN i
  ELSE SchemeStop(s, i + 1)

\* the end of the loop of Scheme2::parse: the scan stopped at position i
Scheme2_other(s, i) ==
  IF /\ i <= Len(s)
     /\ s[i] = 58
     /\ Len(s) >= i + 2
     /\ Slice(s, i + 1, i + 2) = <<47, 47>>
  THEN [scheme |-> [kind |-> "other", s |-> Slice(s, 1, i - 1)], skip |-> i + 2]
  ELSE [scheme |-> NoScheme, skip |-> 0]

\* Scheme2::parse: the scheme and the number of bytes it takes with "://"
Scheme2_parse(s) ==
  IF Len(s) >= 7 /\ EqIgnoreAsciiCase(Slice(s, 1, 7), S_http \o <<58, 47, 47>>)
  THEN [scheme |-> [kind |-> "std", s |-> S_http], skip |-> 7]
  ELSE IF Len(s) >= 8 /\ EqIgnoreAsciiCase(Slice(s, 1, 8), S_https \o <<58, 47, 47>>)
  THEN [scheme |-> [kind |-> "std", s |-> S_https], skip |-> 8]
  ELSE IF Len(s) > 3 THEN Scheme2_other(s, SchemeStop(s, 1))
  ELSE [scheme |-> NoScheme, skip |-> 0]

AuthInit(s) ==
  [colon |-> 0, sb |-> FALSE, eb |-> FALSE, pct |-> FALSE, at |-> 0,
   end |-> Len(s), ok |-> TRUE, go |-> TRUE]

\* one turn of the loop of Authority::parse on the byte b at position i, c its
\* entry in URI_CHARS; at is the 1-based position of the last '@'
AuthorityStep(st, i, b, c) ==
  IF c \in {47, 63, 35} THEN [st EXCEPT !.end = i - 1, !.go = FALSE]
  ELSE IF c = 58
  THEN IF st.colon >= 8 THEN [st EXCEPT !.ok = FALSE, !.go = FALSE]
       ELSE [st EXCEPT !.colon = st.colon + 1]
  ELSE IF c = 91
  THEN IF st.pct \/ st.sb THEN [st EXCEPT !.ok = FALSE, !.go = FALSE]
       ELSE [st EXCEPT !.sb = TRUE]
  ELSE IF c = 93
  THEN IF (~st.sb) \/ st.eb THEN [st EXCEPT !.ok = FALSE, !.go = FALSE]
       ELSE [st EXCEPT !.eb = TRUE, !.colon = 0, !.pct = FALSE]
  ELSE IF c = 64 THEN [st EXCEPT !.at = i, !.colon = 0, !.pct = FALSE]
  ELSE IF c = 0
  THEN IF b = 37 THEN [st EXCEPT !.pct = TRUE]
       ELSE [st EXCEPT !.ok = FALSE, !.go = FALSE]
  ELSE st

\* the loop of Authority::parse
RECURSIVE AuthorityScan(_, _, _)
AuthorityScan(s, i, st) ==
  IF i > Len(s) \/ ~st.go THEN st
  ELSE AuthorityScan(s, i + 1, AuthorityStep(st, i, s[i], URI_CHARS(s[i])))

\* the checks of Authority::parse after its loop
Authority_check(st) ==
  IF /\ st.ok
     /\ st.sb = st.eb
     /\ st.colon <= 1
     /\ ~(st.end > 0 /\ st.at = st.end)
     /\ ~st.pct
  THEN [ok |-> TRUE, end |-> st.end]
  ELSE [ok |-> FALSE, end |-> 0]

\* Authority::parse: the length of the authority at the front of s
Authority_parse(s) == Authority_check(AuthorityScan(s, 1, AuthInit(s)))

IsPathByte(b) ==
  \/ b = 33
  \/ (b >= 36 /\ b <= 59)
  \/ b = 61
  \/ (b >= 64 /\ b <= 95)
  \/ (b >= 97 /\ b <= 122)
  \/ b = 124
  \/ b = 126
  \/ b \in {34, 123, 125}

IsQueryByte(b) ==
  b = 33 \/ (b >= 36 /\ b <= 59) \/ b = 61 \/ (b >= 63 /\ b <= 126)

\* the first position of a byte of stops in s from i on, Len(s) + 1 when none
RECURSIVE FindByte(_, _, _)
FindByte(s, i, stops) ==
  IF i > Len(s) THEN i
  ELSE IF s[i] \in stops THEN i
  ELSE FindByte(s, i + 1, stops)

\* PathAndQuery::from_shared with the path ending before position p and the
\* query (when s[p] is '?') before position q: the fragment is dropped
PathAndQuery_split(s, p, q) ==
  IF /\ AllBytes(Slice(s, 1, p - 1), IsPathByte)
     /\ AllBytes(Slice(s, p + 1, q - 1), IsQueryByte)
  THEN [ok |-> TRUE, data |-> Slice(s, 1, q - 1)]
  ELSE [ok |-> FALSE, data |-> <<>>]

PathAndQuery_query(s, p) ==
  IF p <= Len(s) /\ s[p] = 63 THEN PathAndQuery_split(s, p, FindByte(s, p + 1, {35}))
  ELSE PathAndQuery_split(s, p, p)

\* PathAndQuery::from_shared
PathAndQuery_from_shared(s) == PathAndQuery_query(s, FindByte(s, 1, {63, 35}))

MkUri(scheme, authority, data) ==
  [scheme |-> scheme, authority |-> authority, data |-> data]

UriErr == [ok |-> FALSE, v |-> MkUri(NoScheme, <<>>, <<>>)]

UriOk(u) == [ok |-> TRUE, v |-> u]

\* the end of Uri::parse_full: the path and query after the authority
Uri_with_path(scheme, authority, pq) ==
  IF pq.ok THEN UriOk(MkUri(scheme, authority, pq.data)) ELSE UriErr

\* Uri::parse_full after the scheme: rest is what follows it, auth the
\* result of Authority::parse on rest
Uri_with_authority(scheme, rest, auth) ==
  IF ~auth.ok THEN UriErr
  ELSE IF scheme.kind = "none"
  THEN IF auth.end # Len(rest) THEN UriErr ELSE UriOk(MkUri(NoScheme, rest, <<>>))
  ELSE IF auth.end = 0 THEN UriErr
  ELSE Uri_with_path(scheme, Slice(rest, 1, auth.end),
                     PathAndQuery_from_shared(Slice(rest, auth.end + 1, Len(rest))))

Uri_after_scheme(scheme, rest) == Uri_with_authority(scheme, rest, Authority_parse(rest))

Uri_with_scheme(s, sch) == Uri_after_scheme(sch.scheme, Slice(s, sch.skip + 1, Len(s)))

\* Uri::parse_full
Uri_parse_full(s) == Uri_with_scheme(s, Scheme2_parse(s))

\* Uri::try_from(&[u8])
Uri_try_from(s) ==
  IF Len(s) = 0 THEN UriErr
  ELSE IF Len(s) = 1 /\ s[1] = 47 THEN UriOk(MkUri(NoScheme, <<>>, <<47>>))
  ELSE IF Len(s) = 1 /\ s[1] = 42 THEN UriOk(MkUri(NoScheme, <<>>, <<42>>))
  ELSE IF Len(s) = 1 THEN Uri_with_authority(NoScheme, s, Authority_parse(s))
  ELSE IF s[1] = 47 THEN Uri_with_path(NoScheme, <<>>, PathAndQuery_from_shared(s))
  ELSE Uri_parse_full(s)

\* the position of the '?' of a path and query, past its end when none
QueryMark(data) == FindByte(data, 1, {63})

Uri_has_query(u) == QueryMark(u.data) <= Len(u.data)

\* PathAndQuery::path
PathAndQuery_path(p) == IF p = <<>> THEN <<47>> ELSE p

\* Uri::path
Uri_path(u) ==
  IF u.data # <<>> \/ u.scheme.kind # "none"
  THEN PathAndQuery_path(Slice(u.data, 1, QueryMark(u.data) - 1))
  ELSE <<>>

\* Uri::query, when there is one
Uri_query(u) == Slice(u.data, QueryMark(u.data) + 1, Len(u.data))

\* <Uri as Display>::fmt
Uri_to_string(u) ==
  Concat(<< IF u.scheme.kind # "none" THEN u.scheme.s \o <<58, 47, 47>> ELSE <<>>,
            u.authority,
            Uri_path(u),
            IF Uri_has_query(u) THEN <<63>> \o Uri_query(u) ELSE <<>> >>)

\* <Uri as PartialEq>::eq
Uri_eq(a, b) ==
  /\ a.scheme.kind = b.scheme.kind
  /\ EqIgnoreAsciiCase(a.scheme.s, b.scheme.s)
  /\ EqIgnoreAsciiCase(a.authority, b.authority)
  /\ Uri_path(a) = Uri_path(b)
  /\ Uri_has_query(a) = Uri_has_query(b)
  /\ Uri_query(a) = Uri_query(b)

(***************************************************************************)
(* serde_json: the parser (from_slice) and the printer (to_string)         *)
(* A parsed document is a tree [t, s, items]: t is the kind, s the text of *)
(* a string, number or literal, items the elements of an array or the      *)
(* <<key, value>> members of an object in document order.                  *)
(***************************************************************************)
JNull == [t |-> "null", s |-> <<>>, items |-> <<>>]

JBool(text) == [t |-> "bool", s |-> text, items |-> <<>>]

JNum(text) == [t |-> "num", s |-> text, items |-> <<>>]

JStr(text) == [t |-> "str", s |-> text, items |-> <<>>]

JArr(items) == [t |-> "arr", s |-> <<>>, items |-> items]

JObj(members) == [t |-> "obj", s |-> <<>>, items |-> members]

JErr == [ok |-> FALSE, v |-> JNull, next |-> 0]

JOk(v, next) == [ok |-> TRUE, v |-> v, next |-> next]

IsJsonWs(b) == b \in {32, 10, 9, 13}

RECURSIVE SkipWs(_, _)
SkipWs(s, i) ==
  IF i <= Len(s) /\ IsJsonWs(s[i]) THEN SkipWs(s, i + 1) ELSE i

HexVal(b) ==
  IF IsDigit(b) THEN b - 48
  ELSE IF b >= 97 /\ b <= 102 THEN b - 87
  ELSE IF b >= 65 /\ b <= 70 THEN b - 55
  ELSE 16

\* the UTF-8 bytes of a code point of the basic plane
Utf8Encode(cp) ==
  IF cp < 128 THEN <<cp>>
  ELSE IF cp < 2048 THEN <<192 + (cp \div 64), 128 + (cp % 64)>>
  ELSE <<224 + (cp \div 4096), 128 + ((cp \div 64) % 64), 128 + (cp % 64)>>

\* the byte a one-letter escape stands for, 256 when it is no escape
UnescapeByte(e) ==
  CASE e = 34 -> 34
    [] e = 92 -> 92
    [] e = 47 -> 47
    [] e = 98 -> 8
    [] e = 102 -> 12
    [] e = 110 -> 10
    [] e = 114 -> 13
    [] e = 116 -> 9
    [] OTHER -> 256

\* the code point of the four hex digits h, 65536 when one is no hex digit
CodePoint(h) ==
  IF \E k \in 1..4 : h[k] = 16 THEN 65536
  ELSE h[1] * 4096 + h[2] * 256 + h[3] * 16 + h[4]

RECURSIVE StrScan(_, _, _)

\* the escape \uXXXX at position i of a string: cp is its code point
StrUnicode(s, i, acc, cp) ==
  IF cp = 65536 \/ (cp >= 55296 /\ cp <= 57343) THEN JErr
  ELSE StrScan(s, i + 6, acc \o Utf8Encode(cp))

\* the escape at position i of a string: e is the byte after the backslash
StrEscape(s, i, acc, e) ==
  IF e = 117
  THEN IF i + 5 > Len(s) THEN JErr
       ELSE StrUnicode(s, i, acc, CodePoint([k \in 1..4 |-> HexVal(s[i + 1 + k])]))
  ELSE IF UnescapeByte(e) = 256 THEN JErr
  ELSE StrScan(s, i + 2, Append(acc, UnescapeByte(e)))

\* the text of a string whose opening quote is before position i
StrScan(s, i, acc) ==
  IF i > Len(s) THEN JErr
  ELSE IF s[i] = 34 THEN IF IsUtf8(acc) THEN JOk(JStr(acc), i + 1) ELSE JErr
  ELSE IF s[i] = 92 THEN IF i + 1 > Len(s) THEN JErr ELSE StrEscape(s, i, acc, s[i + 1])
  ELSE IF s[i] < 32 THEN JErr
  ELSE StrScan(s, i + 1, Append(acc, s[i]))

RECURSIVE DigitsEnd(_, _)
DigitsEnd(s, i) ==
  IF i <= Len(s) /\ IsDigit(s[i]) THEN DigitsEnd(s, i + 1) ELSE i

\* the exponent of a number that starts at i: e1 is where its digits start
\* and d where they end
NumberExponent(s, i, e1, d) ==
  IF d = e1 THEN JErr ELSE JOk(JNum(Slice(s, i, d - 1)), d)

\* the end of a number that starts at i and has its fraction end before c
NumberEnd(s, i, c) ==
  IF c <= Len(s) /\ s[c] \in {101, 69}
  THEN IF c + 1 <= Len(s) /\ s[c + 1] \in {43, 45}
       THEN NumberExponent(s, i, c + 2, DigitsEnd(s, c + 2))
       ELSE NumberExponent(s, i, c + 1, DigitsEnd(s, c + 1))
  ELSE JOk(JNum(Slice(s, i, c - 1)), c)

\* the fraction of a number that starts at i: its digits after '.' end before c
NumberFraction(s, i, b, c) == IF c = b + 1 THEN JErr ELSE NumberEnd(s, i, c)

\* the integer part of a number that starts at i: its digits are a..b-1
NumberInteger(s, i, a, b) ==
  IF b = a THEN JErr
  ELSE IF s[a] = 48 /\ b > a + 1 THEN JErr
  ELSE IF b <= Len(s) /\ s[b] = 46 THEN NumberFraction(s, i, b, DigitsEnd(s, b + 1))
  ELSE NumberEnd(s, i, b)

NumberDigits(s, i, a) == NumberInteger(s, i, a, DigitsEnd(s, a))

\* a number starting at i: -? (0 | [1-9][0-9]*) (. [0-9]+)? ([eE] [+-]? [0-9]+)?
ParseNumber(s, i) ==
  IF s[i] = 45 THEN NumberDigits(s, i, i + 1) ELSE NumberDigits(s, i, i)

ParseLiteral(s, i, text, v) ==
  IF i + Len(text) - 1 <= Len(s) /\ Slice(s, i, i + Len(text) - 1) = text
  THEN JOk(v, i + Len(text))
  ELSE JErr

S_true == Str(<<"t","r","u","e">>)

S_false == Str(<<"f","a","l","s","e">>)

S_null == Str(<<"n","u","l","l">>)

RECURSIVE ParseValue(_, _)
RECURSIVE ParseItems(_, _, _)
RECURSIVE ParseMembers(_, _, _)

\* an array after one more element r: acc holds the elements before it
ItemsNext(s, r, acc) ==
  IF r.ok THEN ParseItems(s, r.next, Append(acc, r.v)) ELSE JErr

\* an array at position j, just past an element and whitespace
ItemsAt(s, j, acc) ==
  IF j > Len(s) THEN JErr
  ELSE IF s[j] = 93 THEN JOk(JArr(acc), j + 1)
  ELSE IF s[j] = 44 THEN ItemsNext(s, ParseValue(s, j + 1), acc)
  ELSE JErr

\* the elements of an array after its first: i is just past an element
ParseItems(s, i, acc) == ItemsAt(s, SkipWs(s, i), acc)

\* an object at position e, just past a member and whitespace
MembersEnd(s, e, acc) ==
  IF e > Len(s) THEN JErr
  ELSE IF s[e] = 125 THEN JOk(JObj(acc), e + 1)
  ELSE IF s[e] = 44 THEN ParseMembers(s, e + 1, acc)
  ELSE JErr

\* an object after the value r of the member named key
MembersValue(s, key, r, acc) ==
  IF r.ok THEN MembersEnd(s, SkipWs(s, r.next), Append(acc, <<key, r.v>>)) ELSE JErr

\* an object at position c, just past the key of a member and whitespace
MembersColon(s, key, c, acc) ==
  IF c > Len(s) \/ s[c] # 58 THEN JErr
  ELSE MembersValue(s, key, ParseValue(s, c + 1), acc)

\* an object after the key k of a member
MembersKey(s, k, acc) ==
  IF k.ok THEN MembersColon(s, k.v.s, SkipWs(s, k.next), acc) ELSE JErr

\* an object at position j, where the key of a member must start
MembersAt(s, j, acc) ==
  IF j > Len(s) \/ s[j] # 34 THEN JErr
  ELSE MembersKey(s, StrScan(s, j + 1, <<>>), acc)

\* the members of an object: i is at the place a key must start
ParseMembers(s, i, acc) == MembersAt(s, SkipWs(s, i), acc)

\* an object whose '{' is at j: m is the place of what follows it
ObjectAt(s, j, m) ==
  IF m <= Len(s) /\ s[m] = 125 THEN JOk(JObj(<<>>), m + 1)
  ELSE ParseMembers(s, j + 1, <<>>)

\* an array whose '[' is at j: m is the place of what follows it
ArrayAt(s, j, m) ==
  IF m <= Len(s) /\ s[m] = 93 THEN JOk(JArr(<<>>), m + 1)
  ELSE ItemsNext(s, ParseValue(s, j + 1), <<>>)

\* a value at position j, where no whitespace is
ValueAt(s, j) ==
  IF j > Len(s) THEN JErr
  ELSE IF s[j] = 34 THEN StrScan(s, j + 1, <<>>)
  ELSE IF s[j] = 123 THEN ObjectAt(s, j, SkipWs(s, j + 1))
  ELSE IF s[j] = 91 THEN ArrayAt(s, j, SkipWs(s, j + 1))
  ELSE IF s[j] = 116 THEN ParseLiteral(s, j, S_true, JBool(S_true))
  ELSE IF s[j] = 102 THEN ParseLiteral(s, j, S_false, JBool(S_false))
  ELSE IF s[j] = 110 THEN ParseLiteral(s, j, S_null, JNull)
  ELSE IF s[j] = 45 \/ IsDigit(s[j]) THEN ParseNumber(s, j)
  ELSE JErr

ParseValue(s, i) == ValueAt(s, SkipWs(s, i))

\* the end of a document: nothing but whitespace may follow the value r
DocumentEnd(s, r) ==
  IF r.ok /\ SkipWs(s, r.next) > Len(s) THEN r ELSE JErr

\* one whole document: a value, then nothing but whitespace
ParseDocument(s) == DocumentEnd(s, ParseValue(s, 1))

\* a serde_json::Value: the objects of a tree made maps (a later key wins)
LastIndex(pairs, k) ==
  CHOOSE i \in 1..Len(pairs) :
    /\ pairs[i][1] = k
    /\ \A j \in (i + 1)..Len(pairs) : pairs[j][1] # k

KeysOf(pairs) == {pairs[i][1] : i \in 1..Len(pairs)}

RECURSIVE ToValue(_)
ToValue(n) ==
  [t |-> n.t,
   s |-> n.s,
   items |-> IF n.t = "arr" THEN [i \in 1..Len(n.items) |-> ToValue(n.items[i])]
             ELSE <<>>,
   members |-> IF n.t = "obj"
               THEN [k \in KeysOf(n.items) |-> ToValue(n.items[LastIndex(n.items, k)][2])]
               ELSE <<>>]

VStr(text) == ToValue(JStr(text))

VNull == ToValue(JNull)

\* byte strings in the order of Ord for str
RECURSIVE LexLeq(_, _)
LexLeq(a, b) ==
  IF a = <<>> THEN TRUE
  ELSE IF b = <<>> THEN FALSE
  ELSE IF a[1] # b[1] THEN a[1] < b[1]
  ELSE LexLeq(Tail(a), Tail(b))

\* the keys of a BTreeMap in its iteration order
RECURSIVE SortedKeys(_)
SortedKeys(K) ==
  IF K = {} THEN <<>>
  ELSE LET m == CHOOSE k \in K : \A j \in K : LexLeq(k, j)
       IN  <<m>> \o SortedKeys(K \ {m})

\* the orders in which a HashMap may hand out its keys
Orders(K) ==
  {o \in [1..Cardinality(K) -> K] : \A k \in K : \E i \in DOMAIN o : o[i] = k}

HexDigit(n) == IF n < 10 THEN 48 + n ELSE 87 + n

EscapeByte(b) ==
  CASE b = 34 -> <<92, 34>>
    [] b = 92 -> <<92, 92>>
    [] b = 8 -> <<92, 98>>
    [] b = 12 -> <<92, 102>>
    [] b = 10 -> <<92, 110>>
    [] b = 13 -> <<92, 114>>
    [] b = 9 -> <<92, 116>>
    [] b < 32 /\ b \notin {8, 9, 10, 12, 13} ->
         <<92, 117, 48, 48, HexDigit(b \div 16), HexDigit(b % 16)>>
    [] OTHER -> <<b>>

\* a string as serde_json writes it, quotes included
PrintString(text) ==
  <<34>> \o Concat([i \in 1..Len(text) |-> EscapeByte(text[i])]) \o <<34>>

RECURSIVE PrintValue(_)
\* the entries key:value of a Value map, in the order keys, joined by commas
RECURSIVE PrintEntries(_, _)
PrintEntries(m, keys) ==
  IF keys = <<>> THEN <<>>
  ELSE Concat(<< PrintString(keys[1]), <<58>>, PrintValue(m[keys[1]]),
                 IF Len(keys) > 1 THEN <<44>> ELSE <<>>,
                 PrintEntries(m, Tail(keys)) >>)

PrintValue(v) ==
  CASE v.t = "str" -> PrintString(v.s)
    [] v.t = "arr" ->
         <<91>> \o Join([i \in 1..Len(v.items) |-> PrintValue(v.items[i])], <<44>>)
                \o <<93>>
    [] v.t = "obj" ->
         <<123>> \o PrintEntries(v.members, SortedKeys(DOMAIN v.members)) \o <<125>>
    [] OTHER -> IF v.t = "null" THEN S_null ELSE v.s

\* serde_json::to_string of a HashMap<String, Value> that iterates in order keys
PrintDetails(details, keys) ==
  <<123>> \o PrintEntries(details, keys) \o <<125>>

\* the map of a parsed document, when the document is an object
Details_from_document(doc) ==
  IF doc.ok /\ doc.v.t = "obj"
  THEN [ok |-> TRUE, v |-> ToValue(doc.v).members]
  ELSE [ok |-> FALSE, v |-> <<>>]

\* serde_json::from_slice::<HashMap<String, Value>>
Details_from_slice(bytes) == Details_from_document(ParseDocument(bytes))

(***************************************************************************)
(* Results and options                                                     *)
(***************************************************************************)
None == [some |-> FALSE, v |-> <<>>]

Some(x) == [some |-> TRUE, v |-> x]

Ok(x) == [ok |-> TRUE, v |-> x]

\* Err(headers_core::Error::invalid()) and the Err(()) of Swap::try_from
Invalid == [ok |-> FALSE, v |-> "invalid"]

(***************************************************************************)
(* Swap (src/lib.rs)                                                       *)
(***************************************************************************)
Swap == {"InnerHtml", "OuterHtml", "BeforeBegin", "AfterBegin", "BeforeEnd", "AfterEnd", "Delete", "None"}

\* impl From<Swap> for HeaderValue
Swap_into_HeaderValue(swap) ==
  CASE swap = "InnerHtml" -> Str(<<"i","n","n","e","r","H","t","m","l">>)
    [] swap = "OuterHtml" -> Str(<<"o","u","t","e","r","H","t","m","l">>)
    [] swap = "BeforeBegin" -> Str(<<"b","e","f","o","r","e","b","e","g","i","n">>)
    [] swap = "AfterBegin" -> Str(<<"a","f","t","e","r","b","e","g","i","n">>)
    [] swap = "BeforeEnd" -> Str(<<"b","e","f","o","r","e","e","n","d">>)
    [] swap = "AfterEnd" -> Str(<<"a","f","t","e","r","e","n","d">>)
    [] swap = "Delete" -> Str(<<"d","e","l","e","t","e">>)
    [] swap = "None" -> Str(<<"n","o","n","e">>)

\* Swap::try_from matching the trimmed, lower-cased token
Swap_try_from_Lenient(bytes) ==
  LET hits == {v \in Swap : LowerStr(Swap_into_HeaderValue(v)) = LowerStr(Trim(bytes))}
  IN  IF hits = {} THEN Invalid ELSE Ok(CHOOSE v \in hits : TRUE)

\* impl TryFrom<&[u8]> for Swap
Swap_try_from(bytes) ==
  CASE bytes = Str(<<"i","n","n","e","r","H","t","m","l">>) -> Ok("InnerHtml")
    [] bytes = Str(<<"o","u","t","e","r","H","t","m","l">>) -> Ok("OuterHtml")
    [] bytes = Str(<<"b","e","f","o","r","e","b","e","g","i","n">>) -> Ok("BeforeBegin")
    [] bytes = Str(<<"a","f","t","e","r","b","e","g","i","n">>) -> Ok("AfterBegin")
    [] bytes = Str(<<"b","e","f","o","r","e","e","n","d">>) -> Ok("BeforeEnd")
    [] bytes = Str(<<"a","f","t","e","r","e","n","d">>) -> Ok("AfterEnd")
    [] bytes = Str(<<"d","e","l","e","t","e">>) -> Ok("Delete")
    [] bytes = Str(<<"n","o","n","e">>) -> Ok("None")
    [] OTHER -> Invalid

(***************************************************************************)
(* AjaxContext and HxLocation as serde sees them (src/headers/response.rs) *)
(***************************************************************************)
\* the fields of AjaxContext in declaration order
AjaxFields == <<"source", "event", "handler", "target", "swap", "values", "headers", "select">>

\* the fields of AjaxContext that hold a HashMap<String, String>
AjaxMapFields == {"values", "headers"}

FieldName(f) ==
  CASE f = "source" -> Str(<<"s","o","u","r","c","e">>)
    [] f = "event" -> Str(<<"e","v","e","n","t">>)
    [] f = "handler" -> Str(<<"h","a","n","d","l","e","r">>)
    [] f = "target" -> Str(<<"t","a","r","g","e","t">>)
    [] f = "swap" -> Str(<<"s","w","a","p">>)
    [] f = "values" -> Str(<<"v","a","l","u","e","s">>)
    [] f = "headers" -> Str(<<"h","e","a","d","e","r","s">>)
    [] f = "select" -> Str(<<"s","e","l","e","c","t">>)

S_path == Str(<<"p","a","t","h">>)

\* AjaxContext::default()
AjaxContext_default == [f \in {AjaxFields[i] : i \in 1..Len(AjaxFields)} |-> None]

\* Serialize for one present field of AjaxContext; ord gives, for a map
\* field, the order in which its HashMap hands out its keys
PrintField(f, x, ord) ==
  PrintString(FieldName(f)) \o <<58>> \o
    (IF f \in AjaxMapFields
     THEN <<123>> \o PrintEntries([k \in DOMAIN x |-> VStr(x[k])], ord[f]) \o <<125>>
     ELSE PrintString(x))

\* the entries of the fields i.. of a context without skip_serializing_if:
\* an absent field is written as null
RECURSIVE PrintContext_Nulls(_, _, _)
PrintContext_Nulls(ctx, i, ord) ==
  IF i > Len(AjaxFields) THEN <<>>
  ELSE LET f == AjaxFields[i]
       IN  (IF ctx[f].some THEN <<44>> \o PrintField(f, ctx[f].v, ord)
            ELSE <<44>> \o PrintString(FieldName(f)) \o <<58>> \o S_null)
             \o PrintContext_Nulls(ctx, i + 1, ord)

\* the entries of the fields i.. of a context, absent fields skipped
RECURSIVE PrintContext(_, _, _)
PrintContext(ctx, i, ord) ==
  IF i > Len(AjaxFields) THEN <<>>
  ELSE LET f == AjaxFields[i]
       IN  (IF ctx[f].some THEN <<44>> \o PrintField(f, ctx[f].v, ord) ELSE <<>>)
             \o PrintContext(ctx, i + 1, ord)

\* serde_json::to_string(&HxLocation): path, then the context flattened
HxLocation_to_json(loc, ord) ==
  Concat(<< <<123>>,
            PrintString(S_path), <<58>>, PrintString(Uri_to_string(loc.path)),
            IF loc.context.some THEN PrintContext(loc.context.v, 1, ord) ELSE <<>>,
            <<125>> >>)

\* the members of an object whose key is k
Entries(pairs, k) == SelectSeq(pairs, LAMBDA p : p[1] = k)

\* a HashMap<String, String> from the members of an object (a later key wins)
StringMap(pairs) ==
  [key \in KeysOf(pairs) |-> pairs[LastIndex(pairs, key)][2].s]

\* Deserialize for Option<String> (f no map field) and for
\* Option<HashMap<String, String>> (f a map field) from the tree n
Option_deserialize(f, n) ==
  IF n.t = "null" THEN Ok(None)
  ELSE IF f \in AjaxMapFields
  THEN IF n.t = "obj" /\ \A i \in 1..Len(n.items) : n.items[i][2].t = "str"
       THEN Ok(Some(StringMap(n.items)))
       ELSE Invalid
  ELSE IF n.t = "str" THEN Ok(Some(n.s))
  ELSE Invalid

\* the field f of AjaxContext from the buffered members es that bear its name
Field_from_entries(f, es) ==
  IF Len(es) > 1 THEN Invalid
  ELSE IF es = <<>> THEN Ok(None)
  ELSE Option_deserialize(f, es[1][2])

Field_deserialize(f, pairs) == Field_from_entries(f, Entries(pairs, FieldName(f)))

\* the context of the results rs of its fields
Context_from_fields(rs) ==
  IF \A f \in DOMAIN rs : rs[f].ok THEN Some([f \in DOMAIN rs |-> rs[f].v]) ELSE None

\* Deserialize for the flattened Option<AjaxContext>: a context that fails
\* to deserialize from the buffered members is None, not an error
Context_deserialize(pairs) ==
  Context_from_fields(
    [f \in {AjaxFields[i] : i \in 1..Len(AjaxFields)} |-> Field_deserialize(f, pairs)])

\* the location of the path uri and the members pairs that are not "path"
Location_with_path(uri, pairs) ==
  IF uri.ok
  THEN Ok([k |-> "HxLocation", path |-> uri.v, context |-> Context_deserialize(pairs)])
  ELSE Invalid

\* the location of the members ps named "path" and the other members
Location_from_entries(ps, pairs) ==
  IF Len(ps) # 1 THEN Invalid
  ELSE IF ps[1][2].t # "str" THEN Invalid
  ELSE Location_with_path(Uri_try_from(ps[1][2].s), pairs)

\* Deserialize for HxLocation from a parsed document
Location_from_document(doc) ==
  IF ~doc.ok \/ doc.v.t # "obj" THEN Invalid
  ELSE Location_from_entries(Entries(doc.v.items, S_path),
                             SelectSeq(doc.v.items, LAMBDA p : p[1] # S_path))

\* serde_json::from_slice::<HxLocation>
HxLocation_from_slice(bytes) == Location_from_document(ParseDocument(bytes))

(***************************************************************************)
(* The header codecs (src/headers.rs, src/headers/request.rs,              *)
(* src/headers/response.rs).  decode takes the caller's sequence of values *)
(* and gives its result and what it leaves of the sequence; encode gives   *)
(* the values it appends to the sink, or panics.                           *)
(***************************************************************************)
TrueHeaders == {"HxBoosted", "HxHistoryRestoreRequest", "HxRequest", "HxRefresh"}

ConvertHeaders == {"HxCurrentUrl", "HxRedirect"}

\* HxTriggerId stands for the request header HxTrigger of request.rs
StringHeaders ==
  {"HxPrompt", "HxTarget", "HxTriggerName", "HxTriggerId", "HxRetarget", "HxReselect"}

\* the markers of HxModifyHistory<M>
HistoryModification == {"HxPushUrl", "HxReplaceUrl"}

\* the markers of HxTrigger<After>
TriggerAfter == {"Unit", "AfterSettle", "AfterSwap"}

HeaderTypes ==
  TrueHeaders \cup ConvertHeaders \cup StringHeaders \cup HistoryModification
    \cup TriggerAfter \cup {"HxReswap", "HxLocation"}

\* a decode that takes one value and only looks at the one after it
Next2_Peek(values) ==
  [first |-> IF Len(values) >= 1 THEN Some(values[1]) ELSE None,
   second |-> IF Len(values) >= 2 THEN Some(values[2]) ELSE None,
   rest |-> Slice(values, 2, Len(values))]

\* the two values.next() calls every decode starts with, and what is left
Next2(values) ==
  [first |-> IF Len(values) >= 1 THEN Some(values[1]) ELSE None,
   second |-> IF Len(values) >= 2 THEN Some(values[2]) ELSE None,
   rest |-> Slice(values, 3, Len(values))]

Unit == [k |-> "Unit"]

Emit(value) == [panic |-> FALSE, out |-> <<value>>]

EmitNothing == [panic |-> FALSE, out |-> <<>>]

Panic == [panic |-> TRUE, out |-> <<>>]

\* HeaderValue::from_str(s).unwrap(), then values.extend(once(header))
EmitStr(s) == IF HeaderValue_from_str(s).ok THEN Emit(s) ELSE Panic

\* true_header!::decode, the arm (Some(value), None)
TrueHeader_value(value) == IF value = S_true THEN Ok(Unit) ELSE Invalid

\* true_header!::decode comparing the value without regard to case
TrueHeader_decode_AnyCase(values) ==
  LET t == Next2(values)
  IN  [res |-> IF t.first.some /\ ~t.second.some
               THEN IF EqIgnoreAsciiCase(t.first.v, S_true) THEN Ok(Unit) ELSE Invalid
               ELSE Invalid,
       rest |-> t.rest]

\* true_header!::decode
TrueHeader_decode(values) ==
  LET t == Next2(values)
  IN  [res |-> IF t.first.some /\ ~t.second.some THEN TrueHeader_value(t.first.v)
               ELSE Invalid,
       rest |-> t.rest]

\* true_header!::encode
TrueHeader_encode(self) == Emit(S_true)

\* .map(Self) / .map(Self::Uri) and .map_err(|_| Error::invalid()) on a parsed Uri
Uri_result(r) == IF r.ok THEN Ok([k |-> "Uri", u |-> r.v]) ELSE Invalid

\* convert_header!::decode, for the Uri headers
ConvertHeader_decode(values) ==
  LET t == Next2(values)
  IN  [res |-> IF t.first.some /\ ~t.second.some
               THEN Uri_result(Uri_try_from(t.first.v))
               ELSE Invalid,
       rest |-> t.rest]

\* convert_header!::encode
ConvertHeader_encode(self) == EmitStr(Uri_to_string(self.u))

\* Ok(Self(s.to_owned())) or the error of to_str
String_result(r) == IF r.ok THEN Ok([k |-> "String", s |-> r.v]) ELSE Invalid

\* string_header!::decode
StringHeader_decode(values) ==
  LET t == Next2(values)
  IN  [res |-> IF t.first.some /\ ~t.second.some
               THEN String_result(HeaderValue_to_str(t.first.v))
               ELSE Invalid,
       rest |-> t.rest]

\* string_header!::encode
StringHeader_encode(self) == EmitStr(self.s)

\* HxLocation::decode
HxLocation_decode(values) ==
  LET t == Next2(values)
  IN  [res |-> IF t.first.some /\ ~t.second.some
               THEN HxLocation_from_slice(t.first.v)
               ELSE Invalid,
       rest |-> t.rest]

\* HxLocation::encode
HxLocation_encode(self, ord) ==
  IF ~self.context.some THEN EmitStr(Uri_to_string(self.path))
  ELSE EmitStr(HxLocation_to_json(self, ord))

S_hx_push_url == Str(<<"h","x","-","p","u","s","h","-","u","r","l">>)

S_hx_replace_url == Str(<<"h","x","-","r","e","p","l","a","c","e","-","u","r","l">>)

\* HistoryModification::name
HistoryModification_name(M) ==
  IF M = "HxPushUrl" THEN S_hx_push_url ELSE S_hx_replace_url

\* HxModifyHistory<M>::decode without the test for "false"
HxModifyHistory_decode_NoSentinel(M, values) ==
  LET t == Next2(values)
  IN  [res |-> IF t.first.some /\ ~t.second.some
               THEN Uri_result(Uri_try_from(t.first.v))
               ELSE Invalid,
       rest |-> t.rest]

\* HxModifyHistory<M>::decode
HxModifyHistory_decode(M, values) ==
  LET t == Next2(values)
  IN  [res |-> IF t.first.some /\ ~t.second.some
               THEN IF t.first.v = S_false THEN Ok([k |-> "NoChange"])
                    ELSE Uri_result(Uri_try_from(t.first.v))
               ELSE Invalid,
       rest |-> t.rest]

\* HxModifyHistory<M>::encode
HxModifyHistory_encode(M, self) ==
  CASE self.k = "Uri" -> EmitStr(Uri_to_string(self.u))
    [] self.k = "NoChange" -> Emit(S_false)
    [] self.k = "Phantom" -> EmitNothing

\* .map(Self) and .map_err(|()| Error::invalid()) on a parsed Swap
Swap_result(r) == IF r.ok THEN Ok([k |-> "Swap", swap |-> r.v]) ELSE Invalid

\* HxReswap::decode
HxReswap_decode(values) ==
  LET t == Next2(values)
  IN  [res |-> IF t.first.some /\ ~t.second.some
               THEN Swap_result(Swap_try_from(t.first.v))
               ELSE Invalid,
       rest |-> t.rest]

\* HxReswap::encode
HxReswap_encode(self) == Emit(Swap_into_HeaderValue(self.swap))

\* .split(',').map(|s| s.trim().to_owned()).collect()
Trigger_names(parts) == [i \in 1..Len(parts) |-> Trim(parts[i])]

\* the fallback of HxTrigger::decode on the result r of value.to_str(), without
\* the trim of each name
Trigger_items_NoTrim(r) ==
  IF r.ok THEN Ok([k |-> "List", list |-> Split(r.v, 44)]) ELSE Invalid

\* the fallback of HxTrigger::decode on the result r of value.to_str(): the
\* value as a list of trimmed names
Trigger_items(r) ==
  IF r.ok THEN Ok([k |-> "List", list |-> Trigger_names(Split(r.v, 44))]) ELSE Invalid

\* HxTrigger<After>::decode, the arm (Some(value), None): json is the result
\* of serde_json::from_slice(bytes)
Trigger_value(value, json) ==
  IF json.ok THEN Ok([k |-> "WithDetails", details |-> json.v])
  ELSE Trigger_items(HeaderValue_to_str(value))

\* HxTrigger<After>::decode
HxTrigger_decode(After, values) ==
  LET t == Next2(values)
  IN  [res |-> IF t.first.some /\ ~t.second.some
               THEN Trigger_value(t.first.v, Details_from_slice(t.first.v))
               ELSE Invalid,
       rest |-> t.rest]

\* HxTrigger<After>::encode with the List arm extending the sink by one value
\* per item in place of the one joined value
HxTrigger_encode_PerItem(After, self, keys) ==
  CASE self.k = "List" -> [panic |-> \E i \in 1..Len(self.list) :
                                      ~HeaderValue_from_str(self.list[i]).ok,
                           out |-> IF \A i \in 1..Len(self.list) :
                                        HeaderValue_from_str(self.list[i]).ok
                                   THEN self.list ELSE <<>>]
    [] self.k = "WithDetails" -> EmitStr(PrintDetails(self.details, keys))
    [] self.k = "Phantom" -> EmitNothing

\* HxTrigger<After>::encode; keys is the order the HashMap iterates in
HxTrigger_encode(After, self, keys) ==
  CASE self.k = "List" -> EmitStr(Join(self.list, <<44, 32>>))
    [] self.k = "WithDetails" -> EmitStr(PrintDetails(self.details, keys))
    [] self.k = "Phantom" -> EmitNothing

(***************************************************************************)
(* The values a message may carry, and the values a caller may build       *)
(***************************************************************************)
W_empty == <<>>

W_True == Str(<<"T","r","u","e">>)

W_true_sp == Str(<<" ","t","r","u","e">>)

W_a == Str(<<"a">>)

W_a_sp == Str(<<" ","a"," ">>)

W_ab == Str(<<"a",",","b">>)

W_list == Str(<<"e","v","e","n","t","1",","," ","e","v","e","n","t","2">>)

W_list_ws == Str(<<" ","a"," ",",","b",",",","," ","c">>)

W_innerhtml == Str(<<"i","n","n","e","r","h","t","m","l">>)

W_none_sp == Str(<<"n","o","n","e"," ">>)

W_slash == Str(<<"/">>)

W_path == Str(<<"/","a">>)

W_pathq == Str(<<"/","a","?","q","=","1">>)

W_pathf == Str(<<"/","a","#","f">>)

W_http == Str(<<"h","t","t","p",":","/","/","a">>)

W_HTTP == Str(<<"H","T","T","P",":","/","/","A","/","b">>)

W_other == Str(<<"x",":","/","/","h","/","p">>)

W_star == Str(<<"*">>)

W_bad_uri == Str(<<"a"," ","b">>)

W_rel == Str(<<"a","/","b">>)

W_details == Str(<<"{","\"","e","v","e","n","t","1","\"",":","\"","A"," ","m","e","s","s","a","g","e","\"",","," ","\"","e","v","e","n","t","2","\"",":","\"","A","n","o","t","h","e","r"," ","m","e","s","s","a","g","e","\"","}">>)

W_obj_empty == Str(<<"{","}">>)

W_obj_dup == Str(<<"{","\"","a","\"",":","1",",","\"","a","\"",":","2","}">>)

W_obj_nested == Str(<<"{","\"","e","\"",":","{","\"","k","\"",":","[","1",",","n","u","l","l","]","}","}">>)

W_obj_cut == Str(<<"{","\"","a","\"",":">>)

W_arr == Str(<<"[","1","]">>)

W_obj_trail == Str(<<"{","\"","a","\"",":","t","r","u","e","}"," ","x">>)

W_loc == Str(<<"{","\"","p","a","t","h","\"",":","\"","/","a","\"","}">>)

W_loc_src == Str(<<"{","\"","p","a","t","h","\"",":","\"","/","a","\"",",","\"","s","o","u","r","c","e","\"",":","\"","#","s","\"","}">>)

W_loc_num == Str(<<"{","\"","p","a","t","h","\"",":","\"","/","a","\"",",","\"","s","o","u","r","c","e","\"",":","5","}">>)

W_loc_null == Str(<<"{","\"","p","a","t","h","\"",":","\"","/","a","\"",",","\"","s","o","u","r","c","e","\"",":","n","u","l","l","}">>)

W_loc_dup == Str(<<"{","\"","p","a","t","h","\"",":","\"","/","a","\"",",","\"","p","a","t","h","\"",":","\"","/","b","\"","}">>)

W_loc_nopath == Str(<<"{","\"","s","o","u","r","c","e","\"",":","\"","x","\"","}">>)

W_loc_badpath == Str(<<"{","\"","p","a","t","h","\"",":","5","}">>)

W_loc_vals == Str(<<"{","\"","p","a","t","h","\"",":","\"","/","a","\"",",","\"","v","a","l","u","e","s","\"",":","{","\"","k","\"",":","\"","v","\"","}",",","\"","o","t","h","e","r","\"",":","[","]","}">>)

W_loc_esc == Str(<<"{","\"","p","a","t","h","\"",":","\"","/","a","\"",",","\"","e","v","e","n","t","\"",":","\"","\\","u","0","0","e","9","\\","n","\"","}">>)

\* e-acute as UTF-8, and a lone byte that is no UTF-8
W_eacute == <<195, 169>>

W_not_utf8 == <<255>>

W_obj_eacute == Str(<<"{","\"">>) \o W_eacute \o Str(<<"\"",":","\"","x","\"","}">>)

SwapTokens == {Swap_into_HeaderValue(v) : v \in Swap}

WireValues ==
  {S_true, S_false, W_eacute, W_not_utf8, W_obj_eacute} \cup SwapTokens \cup
  {W_empty, W_True, W_true_sp, W_a, W_a_sp, W_ab,
   W_list, W_list_ws, W_innerhtml, W_none_sp, W_slash, W_path,
   W_pathq, W_pathf, W_http, W_HTTP, W_other, W_star,
   W_bad_uri, W_rel, W_details, W_obj_empty, W_obj_dup, W_obj_nested,
   W_obj_cut, W_arr, W_obj_trail, W_loc, W_loc_src, W_loc_num,
   W_loc_null, W_loc_dup, W_loc_nopath, W_loc_badpath, W_loc_vals, W_loc_esc}

\* the values that may follow the first one in a message
ExtraValues == {S_true, W_a}

\* the longest run of further values a message carries after its first
MaxExtra == 2

\* the most values a sink holds before an encode
MaxSink == 1

RECURSIVE SeqsUpTo(_, _)
SeqsUpTo(S, n) ==
  IF n = 0 THEN {<<>>}
  ELSE LET shorter == SeqsUpTo(S, n - 1)
       IN  shorter \cup {Append(q, x) : q \in shorter, x \in S}

\* the sequences of values a message may hold for one header name
Messages ==
  {<<>>} \cup {<<w>> \o tail : w \in WireValues, tail \in SeqsUpTo(ExtraValues, MaxExtra)}

\* what a sink may hold before an encode
InitialSinks == SeqsUpTo({W_a}, MaxSink)

W_ctl == <<97, 10, 98>>

W_del == <<97, 127>>

W_quote == Str(<<"a","\"","b","\\">>)

W_hash_s == Str(<<"#","s">>)

W_event1 == Str(<<"e","v","e","n","t","1">>)

W_event2 == Str(<<"e","v","e","n","t","2">>)

W_k == Str(<<"k">>)

W_v == Str(<<"v">>)

W_b == Str(<<"b">>)

Strings == {<<>>, W_a, W_a_sp, W_ab, W_eacute, W_ctl, S_true, W_details}

UriTexts ==
  {W_slash, W_path, W_pathq, W_pathf, W_http, W_HTTP, W_other, W_star, W_a, S_false}

Uris == {Uri_try_from(text).v : text \in UriTexts}

AjaxFieldSet == {AjaxFields[i] : i \in 1..Len(AjaxFields)}

SampleField(f) == IF f \in AjaxMapFields THEN [key \in {W_k} |-> W_v] ELSE W_hash_s

WithField(f, x) == [AjaxContext_default EXCEPT ![f] = Some(x)]

\* the sets of present fields tried: few fields, or all but few
PresentSets ==
  {P \in SUBSET AjaxFieldSet : Cardinality(P) <= 2 \/ Cardinality(P) >= 7}

Contexts ==
  {[f \in AjaxFieldSet |-> IF f \in P THEN Some(SampleField(f)) ELSE None] :
     P \in PresentSets}
  \cup {WithField("source", x) : x \in {<<>>, W_eacute, W_ctl, W_del, W_quote}}
  \cup {WithField("values", m) :
          m \in {<<>>, [key \in {W_a, W_b} |-> IF key = W_a THEN W_v ELSE W_eacute]}}

Locations ==
  {[k |-> "HxLocation", path |-> Uri_try_from(text).v, context |-> c] :
     text \in {W_path, W_http},
     c \in {None} \cup {Some(ctx) : ctx \in Contexts}}

Lists ==
  { <<>>, <<W_a>>, <<W_event1, W_event2>>, << <<>> >>, <<W_a_sp>>, <<W_ab>>,
    <<W_a, <<>>>>, <<W_eacute>>, <<W_ctl>>, <<W_obj_empty>>,
    <<Str(<<"{","\"","a","\"",":","1">>), Str(<<"\"","b","\"",":","2","}">>)>> }

DetailMaps ==
  { <<>>,
    [key \in {W_a} |-> VStr(W_v)],
    [key \in {W_a, W_b} |-> IF key = W_a THEN VStr(W_quote) ELSE VNull],
    [key \in {W_eacute} |-> VStr(W_eacute)],
    [key \in {W_a} |-> VStr(W_del)],
    Details_from_slice(W_obj_nested).v }

\* the values of a header type its public API can build
Values(t) ==
  CASE t \in TrueHeaders -> {Unit}
    [] t \in ConvertHeaders -> {[k |-> "Uri", u |-> u] : u \in Uris}
    [] t \in StringHeaders -> {[k |-> "String", s |-> x] : x \in Strings}
    [] t \in HistoryModification ->
         {[k |-> "Uri", u |-> u] : u \in Uris} \cup {[k |-> "NoChange"], [k |-> "Phantom"]}
    [] t \in TriggerAfter ->
         {[k |-> "List", list |-> l] : l \in Lists}
           \cup {[k |-> "WithDetails", details |-> m] : m \in DetailMaps}
           \cup {[k |-> "Phantom"]}
    [] t = "HxReswap" -> {[k |-> "Swap", swap |-> v] : v \in Swap}
    [] t = "HxLocation" -> Locations

\* equality of two values of one header type: PartialEq, field by field
ValueEq(a, b) ==
  /\ a.k = b.k
  /\ CASE a.k = "Uri" -> Uri_eq(a.u, b.u)
       [] a.k = "HxLocation" -> Uri_eq(a.path, b.path) /\ a.context = b.context
       [] OTHER -> a = b

(***************************************************************************)
(* The caller: it builds a value and encodes it into a sink, hands what    *)
(* was emitted to decode, or decodes the values of a received message.     *)
(***************************************************************************)
VARIABLES ty, val, sink, mark, input, rest, res, pc, rt

vars == <<ty, val, sink, mark, input, rest, res, pc, rt>>

NoVal == [k |-> "none"]

NoRes == [ok |-> FALSE, v |-> "none"]

Init ==
  /\ ty = "none"
  /\ val = NoVal
  /\ sink = <<>>
  /\ mark = 0
  /\ input = <<>>
  /\ rest = <<>>
  /\ res = NoRes
  /\ pc = "idle"
  /\ rt = FALSE

\* the caller constructs a value of some header type and picks a sink
Build ==
  /\ pc = "idle"
  /\ \E t \in HeaderTypes, pre \in InitialSinks :
       \E v \in Values(t) :
         /\ ty' = t
         /\ val' = v
         /\ sink' = pre
         /\ mark' = Len(pre)
  /\ pc' = "built"
  /\ UNCHANGED <<input, rest, res, rt>>

\* values.extend(..) of an encode, or its panic
Extend(e) ==
  /\ sink' = sink \o e.out
  /\ pc' = IF e.panic THEN "panicked" ELSE "encoded"
  /\ UNCHANGED <<ty, val, mark, input, rest, res, rt>>

TrueHeaderEncode == pc = "built" /\ ty \in TrueHeaders /\ Extend(TrueHeader_encode(val))

ConvertHeaderEncode ==
  pc = "built" /\ ty \in ConvertHeaders /\ Extend(ConvertHeader_encode(val))

StringHeaderEncode ==
  pc = "built" /\ ty \in StringHeaders /\ Extend(StringHeader_encode(val))

KeyOrders(opt) == IF opt.some THEN Orders(DOMAIN opt.v) ELSE {<<>>}

HxLocationEncode ==
  /\ pc = "built"
  /\ ty = "HxLocation"
  /\ IF val.context.some
     THEN \E ov \in KeyOrders(val.context.v.values),
             oh \in KeyOrders(val.context.v.headers) :
            Extend(HxLocation_encode(val, [values |-> ov, headers |-> oh]))
     ELSE Extend(HxLocation_encode(val, [values |-> <<>>, headers |-> <<>>]))

HxModifyHistoryEncode ==
  pc = "built" /\ ty \in HistoryModification /\ Extend(HxModifyHistory_encode(ty, val))

HxReswapEncode == pc = "built" /\ ty = "HxReswap" /\ Extend(HxReswap_encode(val))

HxTriggerEncode ==
  /\ pc = "built"
  /\ ty \in TriggerAfter
  /\ IF val.k = "WithDetails"
     THEN \E keys \in Orders(DOMAIN val.details) : Extend(HxTrigger_encode(ty, val, keys))
     ELSE Extend(HxTrigger_encode(ty, val, <<>>))

\* the caller hands the values the encode emitted to decode
Feed ==
  /\ pc = "encoded"
  /\ input' = Slice(sink, mark + 1, Len(sink))
  /\ rest' = Slice(sink, mark + 1, Len(sink))
  /\ rt' = TRUE
  /\ pc' = "received"
  /\ UNCHANGED <<ty, val, sink, mark, res>>

\* the caller takes the values of one header name from a message
Receive ==
  /\ pc = "idle"
  /\ \E t \in HeaderTypes, values \in Messages :
       /\ ty' = t
       /\ input' = values
       /\ rest' = values
  /\ rt' = FALSE
  /\ pc' = "received"
  /\ UNCHANGED <<val, sink, mark, res>>

\* a decode call on an iterator over input
Decoded(d) ==
  /\ res' = d.res
  /\ rest' = d.rest
  /\ pc' = "decoded"
  /\ UNCHANGED <<ty, val, sink, mark, input, rt>>

TrueHeaderDecode == pc = "received" /\ ty \in TrueHeaders /\ Decoded(TrueHeader_decode(input))

ConvertHeaderDecode ==
  pc = "received" /\ ty \in ConvertHeaders /\ Decoded(ConvertHeader_decode(input))

StringHeaderDecode ==
  pc = "received" /\ ty \in StringHeaders /\ Decoded(StringHeader_decode(input))

HxLocationDecode == pc = "received" /\ ty = "HxLocation" /\ Decoded(HxLocation_decode(input))

HxModifyHistoryDecode ==
  pc = "received" /\ ty \in HistoryModification /\ Decoded(HxModifyHistory_decode(ty, input))

HxReswapDecode == pc = "received" /\ ty = "HxReswap" /\ Decoded(HxReswap_decode(input))

HxTriggerDecode ==
  pc = "received" /\ ty \in TriggerAfter /\ Decoded(HxTrigger_decode(ty, input))

\* the caller encodes the value a decode gave it into a fresh sink
Reuse ==
  /\ pc = "decoded"
  /\ res.ok
  /\ ~rt
  /\ val' = res.v
  /\ sink' = <<>>
  /\ mark' = 0
  /\ pc' = "built"
  /\ UNCHANGED <<ty, input, rest, res, rt>>

\* the caller is done with the value or the message
Reset ==
  /\ pc \in {"encoded", "decoded", "panicked"}
  /\ ty' = "none"
  /\ val' = NoVal
  /\ sink' = <<>>
  /\ mark' = 0
  /\ input' = <<>>
  /\ rest' = <<>>
  /\ res' = NoRes
  /\ pc' = "idle"
  /\ rt' = FALSE

Next ==
  \/ Build
  \/ TrueHeaderEncode
  \/ ConvertHeaderEncode
  \/ StringHeaderEncode
  \/ HxLocationEncode
  \/ HxModifyHistoryEncode
  \/ HxReswapEncode
  \/ HxTriggerEncode
  \/ Feed
  \/ Receive
  \/ TrueHeaderDecode
  \/ ConvertHeaderDecode
  \/ StringHeaderDecode
  \/ HxLocationDecode
  \/ HxModifyHistoryDecode
  \/ HxReswapDecode
  \/ HxTriggerDecode
  \/ Reuse
  \/ Reset

Spec == Init /\ [][Next]_vars

(***************************************************************************)
(* Properties                                                              *)
(***************************************************************************)
\* the values the last encode appended to the sink
Emitted == Slice(sink, mark + 1, Len(sink))

\* C1: for every header type and every value v its API can build, encoding
\* v and decoding what was emitted returns Ok with a value equal to v.
\* (Stated for the documented variants: the hidden Phantom variants, which
\* encode to nothing, are left out.)
C1_RoundTripEveryValue ==
  (pc = "decoded" /\ rt /\ val.k # "Phantom") => (res.ok /\ ValueEq(res.v, val))

\* C2: a boolean-sentinel header decodes Ok exactly when the sequence holds
\* one value and that value is the bytes of "true"; anything else is an
\* error; and encoding such a header emits the one value "true".
C2_TrueHeaderExact ==
  /\ (pc = "decoded" /\ ty \in TrueHeaders) =>
       /\ res.ok <=> (Len(input) = 1 /\ input[1] = <<116, 114, 117, 101>>)
       /\ ~res.ok => res = Invalid
  /\ (pc = "encoded" /\ ty \in TrueHeaders) => Emitted = << <<116, 114, 117, 101>> >>

\* C2 witness: "true" was decoded and the decoded value encoded to "true" again
C2_Witness ==
  /\ pc = "encoded"
  /\ ty \in TrueHeaders
  /\ input = <<S_true>>
  /\ res.ok
  /\ val = res.v
  /\ Emitted = <<S_true>>

\* the eight tokens of the swap wire format, as the protocol lists them
EightTokens ==
  {Str(<<"i","n","n","e","r","H","t","m","l">>),
   Str(<<"o","u","t","e","r","H","t","m","l">>),
   Str(<<"b","e","f","o","r","e","b","e","g","i","n">>),
   Str(<<"a","f","t","e","r","b","e","g","i","n">>),
   Str(<<"b","e","f","o","r","e","e","n","d">>),
   Str(<<"a","f","t","e","r","e","n","d">>),
   Str(<<"d","e","l","e","t","e">>),
   Str(<<"n","o","n","e">>)}

\* C3: the swap mapping is a bijection between the eight variants and the
\* eight tokens: a variant's token parses back to the variant, HxReswap
\* round-trips, distinct variants have distinct tokens, and a value that is
\* not byte for byte one of the eight tokens fails to decode.
C3_SwapBijection ==
  /\ \A v \in Swap : Swap_try_from(Swap_into_HeaderValue(v)) = Ok(v)
  /\ {Swap_into_HeaderValue(v) : v \in Swap} = EightTokens
  /\ \A a, b \in Swap : a # b => Swap_into_HeaderValue(a) # Swap_into_HeaderValue(b)
  /\ (pc = "decoded" /\ ty = "HxReswap" /\ rt) => res = Ok(val)
  /\ (pc = "decoded" /\ ty = "HxReswap" /\ Len(input) = 1) =>
       /\ res.ok <=> input[1] \in EightTokens
       /\ res.ok => Swap_into_HeaderValue(res.v.swap) = input[1]
       /\ ~res.ok => res = Invalid

\* C3 witness: a differently-cased token was refused
C3_Witness ==
  /\ pc = "decoded"
  /\ ty = "HxReswap"
  /\ input = <<W_innerhtml>>
  /\ res = Invalid

\* C4: under both markers, decoding the one value "false" gives NoChange,
\* any other one value gives Uri(u) when it parses as a URI and an error when
\* it does not; NoChange encodes to exactly "false" and Uri(u) to the string
\* form of u; the marker changes the name and nothing else.
C4_ModifyHistory ==
  /\ (pc = "decoded" /\ ty \in HistoryModification /\ Len(input) = 1) =>
       /\ input[1] = S_false => res = Ok([k |-> "NoChange"])
       /\ (input[1] # S_false /\ Uri_try_from(input[1]).ok) =>
            res = Ok([k |-> "Uri", u |-> Uri_try_from(input[1]).v])
       /\ (input[1] # S_false /\ ~Uri_try_from(input[1]).ok) => res = Invalid
       /\ \A M \in HistoryModification :
            HxModifyHistory_decode(M, input).res = res
  /\ (pc = "encoded" /\ ty \in HistoryModification) =>
       /\ val.k = "NoChange" => Emitted = <<S_false>>
       /\ val.k = "Uri" => Emitted = <<Uri_to_string(val.u)>>
       /\ \A M \in HistoryModification :
            HxModifyHistory_encode(M, val).out = Emitted
  /\ (pc = "panicked" /\ ty \in HistoryModification) => val.k \notin {"NoChange", "Uri"}
  /\ HistoryModification_name("HxPushUrl") = Str(<<"h","x","-","p","u","s","h","-","u","r","l">>)
  /\ HistoryModification_name("HxReplaceUrl")
       = Str(<<"h","x","-","r","e","p","l","a","c","e","-","u","r","l">>)

\* C4 witness: the replace-url header decoded "false" to NoChange
C4_Witness ==
  /\ pc = "decoded"
  /\ ty = "HxReplaceUrl"
  /\ input = <<S_false>>
  /\ res = Ok([k |-> "NoChange"])

\* the key of each member of a parsed object, in document order
MemberKeys(doc) == [i \in 1..Len(doc.items) |-> doc.items[i][1]]

NoDuplicates(q) == \A i, j \in 1..Len(q) : q[i] = q[j] => i = j

\* the tree a present field of an AjaxContext is written as
FieldTree(f, x) ==
  IF f \in AjaxMapFields
  THEN [t |-> "obj", keys |-> DOMAIN x, strs |-> x]
  ELSE [t |-> "str", keys |-> {}, strs |-> x]

\* a parsed member, reduced to what FieldTree says of a field
MemberTree(n) ==
  IF n.t = "obj"
  THEN [t |-> "obj", keys |-> KeysOf(n.items),
        strs |-> [key \in KeysOf(n.items) |-> n.items[LastIndex(n.items, key)][2].s]]
  ELSE [t |-> n.t, keys |-> {}, strs |-> n.s]

\* C5: HxLocation's encode emits exactly one value; without a context it is
\* the bare URI string of path and no JSON; with a context it is a JSON
\* object holding "path" and exactly the fields of the context that are
\* Some, each once, with its value, and never a null.
C5_LocationEncodeShape ==
  (pc = "encoded" /\ ty = "HxLocation") =>
    /\ Len(Emitted) = 1
    /\ ~val.context.some =>
         /\ Emitted[1] = Uri_to_string(val.path)
         /\ ~ParseDocument(Emitted[1]).ok
    /\ val.context.some =>
         LET doc == ParseDocument(Emitted[1])
             present == {f \in AjaxFieldSet : val.context.v[f].some}
         IN  /\ doc.ok
             /\ doc.v.t = "obj"
             /\ NoDuplicates(MemberKeys(doc.v))
             /\ KeysOf(doc.v.items) = {S_path} \cup {FieldName(f) : f \in present}
             /\ \A i \in 1..Len(doc.v.items) : doc.v.items[i][2].t # "null"
             /\ Entries(doc.v.items, S_path)[1][2] = JStr(Uri_to_string(val.path))
             /\ \A f \in present :
                  MemberTree(Entries(doc.v.items, FieldName(f))[1][2])
                    = FieldTree(f, val.context.v[f].v)

\* C5 witness: a location with the default context was encoded to the object
\* that holds only "path"
C5_Witness ==
  /\ pc = "encoded"
  /\ ty = "HxLocation"
  /\ val.context = Some(AjaxContext_default)
  /\ Emitted = <<W_loc>>

\* the value is text for HeaderValue::to_str: visible ASCII and tabs only
IsText(value) == \A i \in 1..Len(value) : (value[i] >= 32 /\ value[i] <= 126) \/ value[i] = 9

\* the names of a comma-separated list, trimmed, in wire order
TrimmedNames(value) == [i \in 1..Len(Split(value, 44)) |-> Trim(Split(value, 44)[i])]

\* the JSON object a value is, when it is one
ObjectOf(value) == ParseDocument(value)

IsJsonObject(value) == ObjectOf(value).ok /\ ObjectOf(value).v.t = "obj"

\* what C6 says of a decode of one value that is a JSON object
TriggerDetailsCase ==
  (pc = "decoded" /\ ty \in TriggerAfter /\ Len(input) = 1 /\ IsJsonObject(input[1])) =>
    /\ res.ok
    /\ res.v.k = "WithDetails"
    /\ DOMAIN res.v.details = KeysOf(ObjectOf(input[1]).v.items)
    /\ input[1] = W_details =>
         res.v.details = [key \in {W_event1, W_event2} |->
                            IF key = W_event1
                            THEN VStr(Str(<<"A"," ","m","e","s","s","a","g","e">>))
                            ELSE VStr(Str(<<"A","n","o","t","h","e","r"," ",
                                            "m","e","s","s","a","g","e">>))]

C7_ListRoundTrip ==
  (pc = "decoded" /\ rt /\ ty \in TriggerAfter /\ val.k = "List") =>
    res = Ok([k |-> "List", list |-> val.list])

\* C8: for every header type, decode of no value or of two or more values
\* is the invalid-header error, every failure is that one error, and an Ok
\* result holds everything the value said: no field of the location context
\* that the value carries is dropped or defaulted.
C8_AllOrNothing ==
  (pc = "decoded") =>
    /\ Len(input) # 1 => res = Invalid
    /\ ~res.ok => res = Invalid
    /\ (res.ok /\ ty = "HxLocation") =>
         \A f \in AjaxFieldSet :
           LET es == Entries(ObjectOf(input[1]).v.items, FieldName(f))
           IN  (es # <<>> /\ es[1][2].t # "null") =>
                 /\ res.v.context.some
                 /\ res.v.context.v[f].some

\* C9: an opaque-string header's decode fails exactly when there is not one
\* value or the value is not valid UTF-8; otherwise it succeeds with the
\* text of the value verbatim.
C9_StringHeaderUtf8 ==
  (pc = "decoded" /\ ty \in StringHeaders) =>
    /\ res.ok <=> (Len(input) = 1 /\ IsUtf8(input[1]))
    /\ res.ok => res.v = [k |-> "String", s |-> input[1]]

\* C10 as claimed: a decode on n >= 1 values advances the iterator by exactly
\* one value and leaves the other n - 1 to the caller.
C10_ConsumesOne_Original ==
  (pc = "decoded" /\ Len(input) >= 1) => rest = Tail(input)

Min(a, b) == IF a <= b THEN a ELSE b

\* C10 amended: a decode on n values takes them from the front only and
\* advances the iterator by one value when n = 1 and by two when n >= 2 (the
\* second is taken to see that there is an extra value), leaving the other
\* n - min(n, 2) to the caller, whether it succeeds or fails.
C10_ConsumesTwo ==
  (pc = "decoded") =>
    /\ Len(rest) = Len(input) - Min(Len(input), 2)
    /\ \A i \in 1..Len(rest) : rest[i] = input[i + Min(Len(input), 2)]

\* C10 witness: a decode on three values left one
C10_Witness ==
  /\ pc = "decoded"
  /\ Len(input) = 3
  /\ Len(rest) = 1
  /\ rest[1] = input[3]

\* C11: an encode only appends to the sink. For every header type and every
\* value whose encode does not panic, the sink after the call is the sink
\* before the call, unchanged and in the same order, followed by exactly one
\* new value; for the hidden Phantom variant of HxModifyHistory and HxTrigger
\* it is the sink before the call and nothing more. No encode emits more
\* than one value: a List of k items emits its one joined value.
C11_EncodeAppendsOne ==
  [][(pc = "built" /\ pc' \in {"encoded", "panicked"}) =>
       /\ Len(sink') <= Len(sink) + 1
       /\ pc' = "encoded" =>
            /\ Len(sink') >= Len(sink)
            /\ Slice(sink', 1, Len(sink)) = sink
            /\ val.k # "Phantom" => Len(sink') = Len(sink) + 1
            /\ val.k = "Phantom" =>
                 /\ sink' = sink
                 /\ ty \in HistoryModification \cup TriggerAfter
            /\ val.k = "List" => sink' = Append(sink, Join(val.list, <<44, 32>>))]_vars

\* C11 witness: a List of two items was encoded into a sink that held a value,
\* and the sink holds that value and then the one joined value
C11_Witness ==
  /\ pc = "encoded"
  /\ ty \in TriggerAfter
  /\ val.k = "List"
  /\ Len(val.list) = 2
  /\ mark = 1
  /\ sink = <<W_a, Join(val.list, <<44, 32>>)>>

====
